---------------------------- MODULE Spec2Model ----------------------------
(***************************************************************************)
(* A model of the secure session layer of FreeViewer:                      *)
(*   - AuthManager (src/src/security/authentication.rs): the credential    *)
(*     store, the session registry and the operations on them, run by      *)
(*     concurrent tasks.  A critical section that holds a RwLock and has   *)
(*     no await inside it is one step; a task is between steps where the   *)
(*     code awaits a lock after it has computed or locked something;       *)
(*   - SecurityManager / ProtocolEncryption (src/src/security/mod.rs,      *)
(*     src/src/protocol/encryption.rs): AES-256-GCM with a nonce prefix.   *)
(*                                                                         *)
(* Each component has its own specification over the shared variables:     *)
(*   Spec        AuthManager from AuthManager::new()                       *)
(*   SpecStore   AuthManager over any well-typed credential store          *)
(*   SpecCipher  SecurityManager and ProtocolEncryption                    *)
(*   SpecConn    FreeViewerClient, NetworkManager and the host's handler   *)
(*   SpecHost    FreeViewerHost: start, stop and the tasks start spawns    *)
(*   SpecCert    CertificateManager over a certificate directory           *)
(***************************************************************************)
EXTENDS Integers, Sequences, FiniteSets, TLC

VARIABLES
    \* ---- AuthManager ----
    users,        \* AuthManager.users : identity -> User
    sessions,     \* AuthManager.sessions : token -> Session
    now,          \* std::time::SystemTime::now()
    pc,           \* per task: where it is in the operation it runs
    loc,          \* per task: the operation's arguments and locals
    usersLock,    \* holder of users.write() across an await, or NoTask
    uuidCount,    \* number of UUIDs Uuid::new_v4() has produced
    calls,        \* number of create_user calls and sessions issued so far
    registered,   \* history: the (identity, password) pairs signed up
    grants,       \* history: tokens handed out and not revoked since
    \* ---- SecurityManager / ProtocolEncryption ----
    cipher,       \* SecurityManager.cipher : Option<Aes256Gcm> (its key)
    is_enabled,   \* ProtocolEncryption.is_enabled
    rng,          \* number of nonces OsRng has produced
    wire,         \* the message in transit: the last output of an encrypt
    cres,         \* the last cipher operation: its input and what it returned
    usedNonces,   \* history: the (key, nonce) pairs encrypt has used, in order
    \* ---- FreeViewerClient / ConnectionManager ----
    state,            \* ConnectionManager.state : ConnectionState
    current_session,  \* FreeViewerClient.current_session : Option<RemoteSession>
    cmLock,           \* holder of the connection_manager mutex, or NoTask
    cpc,              \* per caller: where it is in connect
    cloc,             \* per caller: the arguments of its connect
    established,      \* history: a connect has succeeded
    teardowns,        \* history: runs of disconnect's teardown since the
                      \* connection was last established
    \* ---- NetworkManager ----
    net_is_active,    \* NetworkManager.is_active
    net_connection,   \* NetworkManager.connection : Option<MockConnection>
    sent,             \* the last frame send_message put on the transport
    \* ---- FreeViewerHost ----
    input_active,     \* InputHandler.is_active
    files_running,    \* FileServer.is_running
    resolution,       \* ScreenCapture.resolution
    host_is_running,  \* FreeViewerHost.is_running
    is_capturing,     \* ScreenCapture.is_capturing
    spawned,          \* per component: tasks start has spawned, not yet run
    hpc,              \* where stop is, or "idle"
    \* ---- CertificateManager ----
    cert_file,        \* the file at cert_path: Option of its bytes
    key_file,         \* the file at key_path: Option of its bytes
    cert_pc,          \* where generate_self_signed is, or "idle"
    cert_last         \* the last certificate operation and what it returned

authVars == <<users, sessions, now, pc, loc, usersLock,
              uuidCount, calls, registered, grants>>
cipherVars == <<cipher, is_enabled, rng, wire, cres, usedNonces>>
clientVars == <<state, current_session, cmLock, cpc, cloc,
                established, teardowns>>
netVars == <<net_is_active, net_connection, sent>>
hostVars == <<input_active, files_running, resolution,
              host_is_running, is_capturing, spawned, hpc>>
connVars == <<clientVars, netVars, hostVars>>
certVars == <<cert_file, key_file, cert_pc, cert_last>>
vars == <<authVars, cipherVars, connVars, certVars>>
\* what an AuthManager step leaves alone
notAuth == <<cipherVars, connVars, certVars>>
notCipher == <<authVars, connVars, certVars>>
notConn == <<authVars, cipherVars, certVars>>
notCert == <<authVars, cipherVars, connVars>>

---------------------------------------------------------------------------
(* Bounds of the model *)

\* create_user calls and sessions issued (UUID tokens and access codes),
\* together, in one run
MaxCalls == 3

Tasks == {"t1", "t2"}
NoTask == "none"
Ids == {"u1", "u2"}
Passwords == {"pw1", "pw2"}
Salts == {"s1"}

---------------------------------------------------------------------------
(* Program constants *)

\* Duration::from_secs(3600): the lifetime of a session token
SessionTtl == 3600
\* Duration::from_secs(300): the lifetime of an access code
AccessCodeTtl == 300

\* The instants the clock is observed at.  For a session issued at 0 they
\* are: its issue, the instant an access code's lifetime ends (expires_at
\* = now), and an instant past the end of both lifetimes.
Instants == {0, AccessCodeTtl, SessionTtl + 1}

---------------------------------------------------------------------------
(* Maps (HashMap) *)

Insert(m, k, v) == [x \in DOMAIN m \cup {k} |-> IF x = k THEN v ELSE m[x]]
EmptyMap == [x \in {} |-> TRUE]

---------------------------------------------------------------------------
(* Tokens.  A UUID v4 string (36 characters) and a 6-digit code can never  *)
(* be equal; Uuid::new_v4() carries 122 random bits and is modelled as     *)
(* never repeating, an access code is any of the codes and may repeat.     *)

\* variant: the generator returns one value again and again
UuidRepeated(n) == <<"uuid", 1>>

Uuid(n) == <<"uuid", n>>
Code(n) == <<"code", n>>
Uuids == {Uuid(n) : n \in 1..MaxCalls}
\* two of the codes format!("{:06}", rand::random::<u32>() % 1_000_000) gives
Codes == {Code(0), Code(1)}
Tokens == Uuids \cup Codes

---------------------------------------------------------------------------
(* Password hashing (argon2).  hash_password(password, salt).to_string()   *)
(* is a PHC string holding the salt and the digest; the digest is modelled *)
(* as the pair it is computed from (no two inputs share a digest).         *)

Argon2(password, salt) == <<"argon2id", salt, password>>

\* Argon2::hash_password(..).to_string(): always a well-formed PHC string
HashPassword(password, salt) ==
    [phc |-> TRUE, salt |-> salt, digest |-> Argon2(password, salt)]

\* PasswordHash::new(&str): Err unless the string is a PHC string
ParseHashOk(hash) == hash.phc

\* Argon2::verify_password: recompute with the stored salt and compare
VerifyPassword(password, hash) == Argon2(password, hash.salt) = hash.digest

---------------------------------------------------------------------------
(* Records *)

NoTime == -1   \* Option<SystemTime>::None

NewUser(id, password, salt, t) ==
    [id |-> id, password_hash |-> HashPassword(password, salt),
     created_at |-> t, last_login |-> NoTime, is_active |-> TRUE]

\* variant: a session that expires at the instant it is created
NewSessionNoTtl(token, user_id, t, ttl) ==
    [token |-> token, user_id |-> user_id, created_at |-> t,
     expires_at |-> t, is_active |-> TRUE]

NewSession(token, user_id, t, ttl) ==
    [token |-> token, user_id |-> user_id, created_at |-> t,
     expires_at |-> t + ttl, is_active |-> TRUE]

---------------------------------------------------------------------------
(* The decisions of the operations, as functions of the store they read *)

\* variant: create_user never finds the identity taken
CreateUserCheckNever(us, id) == "Ok"

\* variant: an identity is taken only once its user has logged in
CreateUserCheckLoggedIn(us, id) ==
    IF id \in DOMAIN us /\ us[id].last_login # NoTime THEN "UserExists" ELSE "Ok"

\* create_user, lines 58-60: the variant it fails with, or "Ok"
CreateUserCheck(us, id) == IF id \in DOMAIN us THEN "UserExists" ELSE "Ok"

\* variant: an unknown identity is reported apart from a wrong password
AuthCheckUserNotFound(us, id, password) ==
    IF id \notin DOMAIN us THEN "UserNotFound"
    ELSE IF ~us[id].is_active THEN "UserInactive"
    ELSE IF ~ParseHashOk(us[id].password_hash) THEN "HashingFailed"
    ELSE IF ~VerifyPassword(password, us[id].password_hash)
         THEN "InvalidCredentials"
    ELSE "Ok"

\* authenticate, lines 69-81: the variant it fails with, or "Ok"
AuthCheck(us, id, password) ==
    IF id \notin DOMAIN us THEN "InvalidCredentials"
    ELSE IF ~us[id].is_active THEN "UserInactive"
    ELSE IF ~ParseHashOk(us[id].password_hash) THEN "HashingFailed"
    ELSE IF ~VerifyPassword(password, us[id].password_hash)
         THEN "InvalidCredentials"
    ELSE "Ok"

\* validate_session, lines 105-115
ValidateCheck(ss, token, t) ==
    IF token \notin DOMAIN ss THEN "InvalidSession"
    ELSE IF ~ss[token].is_active THEN "SessionInactive"
    ELSE IF ss[token].expires_at < t THEN "SessionExpired"
    ELSE "Ok"

\* variant: the sweep keeps a session whose expires_at equals now
RetainedAtExpiry(session, t) == session.is_active /\ session.expires_at >= t

\* cleanup_expired_sessions, lines 132-134: the closure given to retain
Retained(session, t) == session.is_active /\ session.expires_at > t

\* variant: every run of the sweep evicts the entries that expire first
RetainEvicting(ss, t) ==
    [k \in {x \in DOMAIN ss :
               \E y \in DOMAIN ss : ss[y].expires_at < ss[x].expires_at}
        |-> ss[k]]

\* HashMap::retain
Retain(ss, t) ==
    [k \in {x \in DOMAIN ss : Retained(ss[x], t)} |-> ss[k]]

---------------------------------------------------------------------------
(* Tasks and locks *)

Idle == [op |-> "none"]

\* users.write() is granted when no task holds the users lock.  The
\* sessions lock is never held across an await, so it is free between steps.
UsersFree == usersLock = NoTask

Finish(p) ==
    /\ pc' = [pc EXCEPT ![p] = "idle"]
    /\ loc' = [loc EXCEPT ![p] = Idle]

Goto(p, label) == pc' = [pc EXCEPT ![p] = label]

\* variant: the users guard outlives the call that took it
DropUsersGuardLeaked(p) == usersLock' = p

\* the users write guard of task p goes out of scope
DropUsersGuard(p) == usersLock' = NoTask

---------------------------------------------------------------------------
(* create_user, lines 42-64 *)

\* lines 43-55: the record is built before the lock is asked for
CreateUserCall(p) ==
    /\ pc[p] = "idle"
    /\ calls < MaxCalls
    /\ calls' = calls + 1
    /\ \E id \in Ids, password \in Passwords, salt \in Salts :
          loc' = [loc EXCEPT ![p] =
                    [op |-> "create_user", id |-> id, password |-> password,
                     user |-> NewUser(id, password, salt, now)]]
    /\ Goto(p, "cu_wait")
    /\ UNCHANGED notAuth
    /\ UNCHANGED <<users, sessions, now, usersLock,
                   uuidCount, registered, grants>>

\* lines 57-63: users.write().await is granted, insert if absent, return
CreateUserInsert(p) ==
    /\ pc[p] = "cu_wait"
    /\ UsersFree
    /\ IF CreateUserCheck(users, loc[p].id) # "Ok"
       THEN UNCHANGED <<users, registered>>
       ELSE /\ users' = Insert(users, loc[p].id, loc[p].user)
            /\ registered' = registered \cup {<<loc[p].id, loc[p].password>>}
    /\ Finish(p)
    /\ UNCHANGED notAuth
    /\ UNCHANGED <<sessions, now, usersLock, uuidCount, calls, grants>>

---------------------------------------------------------------------------
(* authenticate, lines 67-100 *)

\* lines 67-94: users.write().await is granted, then the checks; on failure
\* `?` returns and drops the guard, on success last_login is set and the
\* session is built, and the guard is kept
AuthenticateCheck(p) ==
    /\ pc[p] = "idle"
    /\ UsersFree
    /\ \E id \in Ids, password \in Passwords :
         LET out == AuthCheck(users, id, password) IN
         IF out # "Ok"
         THEN UNCHANGED <<users, pc, loc, uuidCount, calls, usersLock>>
         ELSE /\ calls < MaxCalls
              /\ users' = [users EXCEPT ![id].last_login = now]
              /\ uuidCount' = uuidCount + 1
              /\ calls' = calls + 1
              /\ usersLock' = p
              /\ loc' = [loc EXCEPT ![p] =
                           [op |-> "authenticate", id |-> id,
                            password |-> password,
                            session |-> NewSession(Uuid(uuidCount + 1),
                                                   id, now, SessionTtl)]]
              /\ Goto(p, "au_swait")
    /\ UNCHANGED notAuth
    /\ UNCHANGED <<sessions, now, registered, grants>>

\* lines 96-99: sessions.write().await is granted with the users guard
\* still held, the session is inserted, both guards are dropped on return
AuthenticateInsert(p) ==
    /\ pc[p] = "au_swait"
    /\ sessions' = Insert(sessions, loc[p].session.token, loc[p].session)
    /\ DropUsersGuard(p)
    /\ grants' = grants \cup {[tok |-> loc[p].session.token,
                               user |-> loc[p].id,
                               at |-> loc[p].session.created_at,
                               swept |-> FALSE]}
    /\ Finish(p)
    /\ UNCHANGED notAuth
    /\ UNCHANGED <<users, now, uuidCount, calls, registered>>

---------------------------------------------------------------------------
(* validate_session, lines 103-116: one critical section under read() *)

\* whatever the token, the call returns and writes nothing
ValidateSession(p) ==
    /\ pc[p] = "idle"
    /\ \A token \in Tokens :
         ValidateCheck(sessions, token, now) \in
            {"Ok", "InvalidSession", "SessionInactive", "SessionExpired"}
    /\ UNCHANGED notAuth
    /\ UNCHANGED <<users, sessions, now, pc, loc, usersLock, uuidCount,
                   calls, registered, grants>>

---------------------------------------------------------------------------
(* revoke_session, lines 119-125: one critical section under write() *)

\* the tokens revoke_session is called with: every token that was issued,
\* and one that was not
RevokeInputs ==
    LET issued == DOMAIN sessions \cup {g.tok : g \in grants} IN
    IF Tokens \subseteq issued THEN issued
    ELSE issued \cup {CHOOSE token \in Tokens : token \notin issued}

RevokeSession(p) ==
    /\ pc[p] = "idle"
    /\ \E token \in RevokeInputs :
         /\ sessions' = IF token \in DOMAIN sessions
                        THEN [sessions EXCEPT ![token].is_active = FALSE]
                        ELSE sessions
         /\ grants' = {g \in grants : g.tok # token}
    /\ UNCHANGED notAuth
    /\ UNCHANGED <<users, now, pc, loc, usersLock, uuidCount, calls,
                   registered>>

---------------------------------------------------------------------------
(* cleanup_expired_sessions, lines 128-135: one critical section under     *)
(* write(); now() is read inside it                                        *)

CleanupExpiredSessions(p) ==
    /\ pc[p] = "idle"
    /\ sessions' = Retain(sessions, now)
    /\ grants' = {IF g.tok \in DOMAIN sessions'
                  THEN g ELSE [g EXCEPT !.swept = TRUE] : g \in grants}
    /\ UNCHANGED notAuth
    /\ UNCHANGED <<users, now, pc, loc, usersLock, uuidCount, calls,
                   registered>>

---------------------------------------------------------------------------
(* generate_access_code, lines 138-154 *)

\* lines 139-148: the code is drawn and the session built before the lock
\* is asked for.  Any identity is accepted: the credential store is not read.
GenerateCall(p) ==
    /\ pc[p] = "idle"
    /\ calls < MaxCalls
    /\ calls' = calls + 1
    /\ \E user_id \in Ids, code \in Codes :
          loc' = [loc EXCEPT ![p] =
                    [op |-> "generate_access_code", user_id |-> user_id,
                     session |-> NewSession(code, user_id, now, AccessCodeTtl)]]
    /\ Goto(p, "ga_wait")
    /\ UNCHANGED notAuth
    /\ UNCHANGED <<users, sessions, now, usersLock, uuidCount,
                   registered, grants>>

\* lines 150-153: sessions.write().await is granted, insert, return
GenerateInsert(p) ==
    /\ pc[p] = "ga_wait"
    /\ sessions' = Insert(sessions, loc[p].session.token, loc[p].session)
    /\ grants' = grants \cup {[tok |-> loc[p].session.token,
                               user |-> loc[p].user_id,
                               at |-> loc[p].session.created_at,
                               swept |-> FALSE]}
    /\ Finish(p)
    /\ UNCHANGED notAuth
    /\ UNCHANGED <<users, now, usersLock, uuidCount, calls, registered>>

---------------------------------------------------------------------------
(* The clock: SystemTime::now() as the tasks read it, taken as monotonic *)

Tick ==
    /\ \E t \in Instants : t > now /\ now' = t
    /\ UNCHANGED notAuth
    /\ UNCHANGED <<users, sessions, pc, loc, usersLock,
                   uuidCount, calls, registered, grants>>


---------------------------------------------------------------------------
(* SecurityManager and ProtocolEncryption.                                 *)
(*                                                                         *)
(* The aes_gcm crate is modelled by a small AEAD of the same shape: the    *)
(* ciphertext is the plaintext with a keystream of (key, nonce) added, and *)
(* the tag is one block, the encrypted first counter block J0 = nonce || 1 *)
(* combined with a keyed hash of the ciphertext and its length.  As in     *)
(* GCM, the tag is a bijective function of each single byte of the nonce   *)
(* and of the ciphertext.                                                  *)

\* longest plaintext
MaxLen == 1
\* nonces drawn in a behaviour
MaxEncrypts == 2

Bytes == {0, 1}
ByteMod == Cardinality(Bytes)
Keys == {"k1", "k2"}
NoCipher == "none"   \* Option::None
NonceLen == 12

Plaintexts == UNION {[1..n -> Bytes] : n \in 0..MaxLen}

RECURSIVE Sum(_)
Sum(s) == IF s = <<>> THEN 0 ELSE Head(s) + Sum(Tail(s))

\* the byte the key schedule derives from a key
KeyByte(key) == IF key = "k1" THEN 0 ELSE 1

\* the first counter block of a 96-bit nonce
Counter1 == <<0, 0, 0, 1>>
J0(nonce) == nonce \o Counter1
BlockLen == NonceLen + Len(Counter1)

Pad(s) == [i \in 1..BlockLen |-> IF i <= Len(s) THEN s[i] ELSE 0]

\* the keystream of (key, nonce) starts at KeyStream0 and steps by one
KeyStream0(key, nonce) == (KeyByte(key) + Sum(nonce)) % ByteMod

GcmCrypt(key, nonce, data) ==
    LET k == KeyStream0(key, nonce)
    IN  [i \in 1..Len(data) |-> (data[i] + k + i) % ByteMod]

GcmUncrypt(key, nonce, ct) ==
    LET k == KeyStream0(key, nonce)
    IN  [i \in 1..Len(ct) |-> (ct[i] + ByteMod * (i + 1) - k - i) % ByteMod]

GcmTag(key, nonce, ct) ==
    LET j == J0(nonce)
        c == Pad(ct)
        k == KeyByte(key) + Len(ct)
    IN  [i \in 1..BlockLen |-> (k + j[i] + c[i]) % ByteMod]

\* Result<Vec<u8>, E>; err is the error variant followed by its detail
Ok(val) == [ok |-> TRUE, val |-> val, err |-> <<>>]
Err(e) == [ok |-> FALSE, val |-> <<>>, err |-> e]

\* Aead::encrypt: ciphertext followed by the tag
AeadEncrypt(key, nonce, data) ==
    LET ct == GcmCrypt(key, nonce, data)
    IN  ct \o GcmTag(key, nonce, ct)

\* variant: a decryption that does not compare the tag
AeadDecryptUnchecked(key, nonce, ciphertext) ==
    IF Len(ciphertext) < BlockLen THEN Err(<<"aead::Error">>)
    ELSE Ok(GcmUncrypt(key, nonce,
                       SubSeq(ciphertext, 1, Len(ciphertext) - BlockLen)))

\* Aead::decrypt: the tag is checked before any plaintext is released
AeadDecrypt(key, nonce, ciphertext) ==
    IF Len(ciphertext) < BlockLen THEN Err(<<"aead::Error">>)
    ELSE LET n == Len(ciphertext) - BlockLen
             ct == SubSeq(ciphertext, 1, n)
             tag == SubSeq(ciphertext, n + 1, Len(ciphertext))
         IN  IF tag # GcmTag(key, nonce, ct) THEN Err(<<"aead::Error">>)
             ELSE Ok(GcmUncrypt(key, nonce, ct))

\* variant: every call uses the same nonce
StaticNonce(n) == [i \in 1..NonceLen |-> 0]

\* Aes256Gcm::generate_nonce(&mut OsRng): the n-th value of the generator.
\* The operating system's generator is taken to be ideal: 96-bit values
\* that do not repeat.
Nonce(n) ==
    [i \in 1..NonceLen |-> (n \div (ByteMod ^ (NonceLen - i))) % ByteMod]

\* variant: the nonce is used but not sent
EncryptNoPrefix(c, nonce, data) ==
    IF c = NoCipher THEN Err(<<"NotInitialized">>)
    ELSE Ok(AeadEncrypt(c, nonce, data))

\* SecurityManager::encrypt
Encrypt(c, nonce, data) ==
    IF c = NoCipher THEN Err(<<"NotInitialized">>)
    ELSE Ok(nonce \o AeadEncrypt(c, nonce, data))

\* variant: the input is split without a look at its length; split_at
\* panics when the input is shorter than the nonce
DecryptUnguarded(c, data) ==
    IF c = NoCipher THEN Err(<<"NotInitialized">>)
    ELSE IF Len(data) < NonceLen THEN Err(<<"panic", "split_at">>)
    ELSE LET r == AeadDecrypt(c, SubSeq(data, 1, NonceLen),
                                 SubSeq(data, NonceLen + 1, Len(data)))
         IN  IF r.ok THEN r ELSE Err(<<"DecryptionFailed">> \o r.err)

\* SecurityManager::decrypt
Decrypt(c, data) ==
    IF c = NoCipher THEN Err(<<"NotInitialized">>)
    ELSE IF Len(data) < NonceLen THEN Err(<<"InvalidData">>)
    ELSE LET r == AeadDecrypt(c, SubSeq(data, 1, NonceLen),
                                 SubSeq(data, NonceLen + 1, Len(data)))
         IN  IF r.ok THEN r ELSE Err(<<"DecryptionFailed">> \o r.err)

\* variant: with no key the data is handed on as it is
EncryptDataLenient(enabled, c, nonce, data) ==
    IF ~enabled \/ c = NoCipher THEN Ok(data)
    ELSE Encrypt(c, nonce, data)

\* ProtocolEncryption::encrypt_data
EncryptData(enabled, c, nonce, data) ==
    IF ~enabled THEN Ok(data)
    ELSE LET r == Encrypt(c, nonce, data)
         IN  IF r.ok THEN r ELSE Err(<<"EncryptFailed">> \o r.err)

\* ProtocolEncryption::decrypt_data
DecryptData(enabled, c, data) ==
    IF ~enabled THEN Ok(data)
    ELSE LET r == Decrypt(c, data)
         IN  IF r.ok THEN r ELSE Err(<<"DecryptFailed">> \o r.err)

NoWire == [sealed |-> FALSE, key |-> NoCipher, plain |-> <<>>,
           data |-> <<>>, touched |-> FALSE]

Did(op, input, res) == [op |-> op, input |-> input, res |-> res]

\* SecurityManager::init_encryption / ProtocolEncryption::init_encryption
InitEncryption ==
    /\ \E key \in Keys : cipher' = key
    /\ cres' = Did("init_encryption", <<>>, Ok(<<>>))
    /\ UNCHANGED <<is_enabled, rng, wire, usedNonces>>
    /\ UNCHANGED notCipher

\* ProtocolEncryption::enable
Enable ==
    /\ \E enable \in BOOLEAN : is_enabled' = enable
    /\ cres' = Did("enable", <<>>, Ok(<<>>))
    /\ UNCHANGED <<cipher, rng, wire, usedNonces>>
    /\ UNCHANGED notCipher

\* the effect of an encrypt on the generator, the wire and the history: a
\* nonce is drawn only after the cipher was found
Sealed(data, res) ==
    /\ rng' = rng + 1
    /\ usedNonces' = Append(usedNonces, [key |-> cipher, nonce |-> Nonce(rng)])
    /\ wire' = [sealed |-> TRUE, key |-> cipher, plain |-> data,
                data |-> res.val, touched |-> FALSE]

\* a call of SecurityManager::encrypt
EncryptCall ==
    /\ \E data \in Plaintexts :
          LET res == Encrypt(cipher, Nonce(rng), data)
          IN  /\ IF cipher = NoCipher
                    THEN UNCHANGED <<rng, wire, usedNonces>>
                    ELSE /\ rng < MaxEncrypts
                         /\ Sealed(data, res)
              /\ cres' = Did("encrypt", data, res)
    /\ UNCHANGED <<cipher, is_enabled>>
    /\ UNCHANGED notCipher

\* a call of SecurityManager::decrypt on the message in transit
DecryptCall ==
    /\ cres' = Did("decrypt", wire.data, Decrypt(cipher, wire.data))
    /\ UNCHANGED <<cipher, is_enabled, rng, wire, usedNonces>>
    /\ UNCHANGED notCipher

\* a call of ProtocolEncryption::encrypt_data
EncryptDataCall ==
    /\ \E data \in Plaintexts :
          LET res == EncryptData(is_enabled, cipher, Nonce(rng), data)
          IN  /\ IF ~is_enabled
                    THEN /\ wire' = [sealed |-> FALSE, key |-> NoCipher,
                                     plain |-> data, data |-> res.val,
                                     touched |-> FALSE]
                         /\ UNCHANGED <<rng, usedNonces>>
                    ELSE IF cipher = NoCipher
                    THEN UNCHANGED <<rng, wire, usedNonces>>
                    ELSE /\ rng < MaxEncrypts
                         /\ Sealed(data, res)
              /\ cres' = Did("encrypt_data", data, res)
    /\ UNCHANGED <<cipher, is_enabled>>
    /\ UNCHANGED notCipher

\* a call of ProtocolEncryption::decrypt_data on the message in transit
DecryptDataCall ==
    /\ cres' = Did("decrypt_data", wire.data,
                   DecryptData(is_enabled, cipher, wire.data))
    /\ UNCHANGED <<cipher, is_enabled, rng, wire, usedNonces>>
    /\ UNCHANGED notCipher

\* the network changes one byte of a message that encrypt produced
Tamper ==
    /\ wire.sealed /\ ~wire.touched
    /\ \E i \in 1..Len(wire.data) : \E b \in Bytes \ {wire.data[i]} :
          wire' = [wire EXCEPT !.data[i] = b, !.touched = TRUE]
    /\ cres' = Did("tamper", <<>>, Ok(<<>>))
    /\ UNCHANGED <<cipher, is_enabled, rng, usedNonces>>
    /\ UNCHANGED notCipher

\* the lengths a message is cut to: one byte short of a nonce, and a nonce
\* with nothing after it
CutLens == {NonceLen - 1, NonceLen}

\* the network delivers only the first bytes of a message that encrypt
\* produced; what is in transit is then no message of encrypt
Truncate ==
    /\ wire.sealed /\ ~wire.touched
    /\ \E n \in CutLens :
          /\ n < Len(wire.data)
          /\ wire' = [wire EXCEPT !.data = SubSeq(wire.data, 1, n),
                                  !.sealed = FALSE, !.touched = TRUE]
    /\ cres' = Did("truncate", <<>>, Ok(<<>>))
    /\ UNCHANGED <<cipher, is_enabled, rng, usedNonces>>
    /\ UNCHANGED notCipher

\* SecurityManager::new inside ProtocolEncryption::new
CipherInit ==
    /\ cipher = NoCipher
    /\ is_enabled = TRUE
    /\ rng = 0
    /\ wire = NoWire
    /\ cres = Did("new", <<>>, Ok(<<>>))
    /\ usedNonces = <<>>

CipherNext ==
    \/ InitEncryption
    \/ Enable
    \/ EncryptCall
    \/ DecryptCall
    \/ EncryptDataCall
    \/ DecryptDataCall
    \/ Tamper
    \/ Truncate
---------------------------------------------------------------------------
(* FreeViewerClient with its ConnectionManager, NetworkManager and          *)
(* FreeViewerHost::handle_message.                                          *)
(*                                                                         *)
(* FreeViewerClient::connect and disconnect hold the connection_manager     *)
(* mutex from their first line to their return; connect awaits a sleep      *)
(* while it holds it.  current_session is locked only by a holder of that   *)
(* mutex.  The methods of NetworkManager that write take &mut self.         *)

\* runs of disconnect counted after one connection was established
MaxTeardowns == 2

Callers == {"c1", "c2"}
Partners == {"p1"}
ConnPasswords == {"", "secret"}

\* Option<T>
None == <<>>
Some(x) == <<x>>

\* enum ConnectionState
Disconnected == <<"Disconnected">>
Connecting == <<"Connecting">>
Authenticating == <<"Authenticating">>
Connected == <<"Connected">>
Error(reason) == <<"Error", reason>>
IsError(s) == s[1] = "Error"

\* RemoteSession::new
NewRemoteSession(partner_id) ==
    [partner_id |-> partner_id, is_active |-> FALSE, session_token |-> None]

\* ScreenCapture::new: the default resolution, and another one
DefaultResolution == <<1920, 1080>>
Resolutions == {DefaultResolution, <<800, 600>>}

\* enum Message: the variants handle_message has an arm for, and one of the
\* others
Msg(type, arg) == [type |-> type, arg |-> arg]
InputTypes == {"MouseMove", "MouseClick", "KeyPress"}
Messages ==
    {Msg(t, <<>>) : t \in InputTypes \cup
                          {"FileListRequest", "Heartbeat", "Disconnect"}}
       \cup {Msg("ScreenResolution", r) : r \in Resolutions}

\* ProtocolConfig::default().use_encryption
UseEncryption == TRUE

NoArgs == [partner_id |-> "", password |-> ""]

\* ConnectionManager::send_message and receive_message, lines 44-46, 54-56
SendCheck(st) == IF st # Connected THEN "NotConnected" ELSE "Ok"
ReceiveCheck(st) == IF st # Connected THEN "NotConnected" ELSE "Ok"

\* FreeViewerClient::connect up to the sleep inside ConnectionManager::connect
ConnectBegin(c) ==
    /\ cpc[c] = "idle"
    /\ cmLock = NoTask
    /\ cmLock' = c
    /\ \E partner_id \in Partners, password \in ConnPasswords :
          cloc' = [cloc EXCEPT ![c] = [partner_id |-> partner_id,
                                       password |-> password]]
    /\ state' = Connecting
    /\ cpc' = [cpc EXCEPT ![c] = "sleeping"]
    /\ UNCHANGED <<current_session, established, teardowns>>
    /\ UNCHANGED <<netVars, hostVars>>
    /\ UNCHANGED notConn

\* the sleep is over: the rest of ConnectionManager::connect, and of
\* FreeViewerClient::connect when it returned Ok
ConnectFinish(c) ==
    /\ cpc[c] = "sleeping"
    /\ IF cloc[c].password = ""
          THEN /\ state' = Error("Invalid password")
               /\ UNCHANGED <<current_session, established, teardowns>>
          ELSE /\ state' = Connected
               /\ current_session' = Some(NewRemoteSession(cloc[c].partner_id))
               /\ established' = TRUE
               /\ teardowns' = 0
    /\ cmLock' = NoTask
    /\ cpc' = [cpc EXCEPT ![c] = "idle"]
    /\ cloc' = [cloc EXCEPT ![c] = NoArgs]
    /\ UNCHANGED <<netVars, hostVars>>
    /\ UNCHANGED notConn

\* FreeViewerClient::disconnect
Disconnect(c) ==
    /\ cpc[c] = "idle"
    /\ cmLock = NoTask
    /\ teardowns < MaxTeardowns
    /\ state' = Disconnected
    /\ current_session' = None
    /\ teardowns' = IF established THEN teardowns + 1 ELSE teardowns
    /\ UNCHANGED <<cmLock, cpc, cloc, established>>
    /\ UNCHANGED <<netVars, hostVars>>
    /\ UNCHANGED notConn

\* FreeViewerClient::send_mouse_input, send_keyboard_input, request_file_list:
\* ConnectionManager::send_message under the mutex
SendMessage(c) ==
    /\ cpc[c] = "idle"
    /\ cmLock = NoTask
    /\ \E message \in Messages : SendCheck(state) \in {"NotConnected", "Ok"}
    /\ UNCHANGED connVars
    /\ UNCHANGED notConn

\* ConnectionManager::receive_message
ReceiveMessage(c) ==
    /\ cpc[c] = "idle"
    /\ cmLock = NoTask
    /\ ReceiveCheck(state) \in {"NotConnected", "Ok"}
    /\ UNCHANGED connVars
    /\ UNCHANGED notConn

\* NetworkManager::start_server
NetStartServer ==
    /\ net_is_active' = TRUE
    /\ UNCHANGED <<net_connection, sent>>
    /\ UNCHANGED <<clientVars, hostVars>>
    /\ UNCHANGED notConn

\* NetworkManager::connect
NetConnect ==
    /\ net_connection' = Some([remote_addr |-> "addr", is_connected |-> TRUE])
    /\ net_is_active' = TRUE
    /\ UNCHANGED sent
    /\ UNCHANGED <<clientVars, hostVars>>
    /\ UNCHANGED notConn

\* NetworkManager::send_message, lines 63-70
NetSendCheck(active, connection) ==
    IF ~active THEN "NotActive"
    ELSE IF connection = None THEN "NotConnected"
    ELSE "Ok"

\* what send_message hands to the transport for a message: the Message
\* itself, lines 76-78; the configuration is not read
WireFrame(use_encryption, message) ==
    [encrypted |-> FALSE, message |-> message]

\* MessageHandler::deserialize_message applied to a frame as it is
DecodesAsMessage(frame) == ~frame.encrypted /\ frame.message \in Messages

NetSendMessage ==
    /\ \E message \in Messages :
          IF NetSendCheck(net_is_active, net_connection) = "Ok"
             THEN sent' = Some(WireFrame(UseEncryption, message))
             ELSE UNCHANGED sent
    /\ UNCHANGED <<net_is_active, net_connection>>
    /\ UNCHANGED <<clientVars, hostVars>>
    /\ UNCHANGED notConn

\* NetworkManager::stop
NetStop ==
    /\ net_is_active' = FALSE
    /\ net_connection' = None
    /\ UNCHANGED sent
    /\ UNCHANGED <<clientVars, hostVars>>
    /\ UNCHANGED notConn

\* FreeViewerHost::handle_message: what it returns
HandleResult(message, input_on, files_on) ==
    IF message.type \in InputTypes
       THEN IF input_on THEN Ok(None) ELSE Err(<<"InputError">>)
    ELSE IF message.type = "FileListRequest"
       THEN IF files_on THEN Ok(Some(Msg("FileListResponse", <<>>)))
            ELSE Err(<<"FileSystemError">>)
    ELSE IF message.type = "ScreenResolution" THEN Ok(None)
    ELSE IF message.type = "Heartbeat" THEN Ok(Some(message))
    ELSE Ok(None)

\* tasks of one component that start has spawned and that have not run yet
MaxSpawned == 2

Components == {"screen_capture", "input_handler", "file_server"}

\* stop locks screen_capture, input_handler and file_server in this order
\* and keeps every guard until it returns
LockedByStop(k) ==
    \/ k = "screen_capture" /\ hpc \in {"stop_input", "stop_files"}
    \/ k = "input_handler" /\ hpc = "stop_files"

\* the component whose mutex handle_message locks for a message
ComponentOf(message) ==
    IF message.type \in InputTypes THEN "input_handler"
    ELSE IF message.type = "FileListRequest" THEN "file_server"
    ELSE IF message.type = "ScreenResolution" THEN "screen_capture"
    ELSE "none"

\* FreeViewerHost::handle_message: what it does
HandleMessage ==
    /\ \E message \in Messages :
          /\ ~LockedByStop(ComponentOf(message))
          /\ HandleResult(message, input_active, files_running).ok \in BOOLEAN
          /\ resolution' = IF message.type = "ScreenResolution"
                              THEN message.arg ELSE resolution
    /\ UNCHANGED <<input_active, files_running,
                   host_is_running, is_capturing, spawned, hpc>>
    /\ UNCHANGED <<clientVars, netVars>>
    /\ UNCHANGED notConn

\* FreeViewerHost::start, lines 35-64: is_running is locked, tested and set,
\* the three tasks are spawned, and start returns; AlreadyRunning otherwise.
\* stop holds the is_running mutex from its first line to its return.
HostStart ==
    /\ hpc = "idle"
    /\ IF host_is_running
          THEN UNCHANGED <<host_is_running, spawned>>
          ELSE /\ \A k \in Components : spawned[k] < MaxSpawned
               /\ host_is_running' = TRUE
               /\ spawned' = [k \in Components |-> spawned[k] + 1]
    /\ UNCHANGED <<input_active, files_running, resolution, is_capturing, hpc>>
    /\ UNCHANGED <<clientVars, netVars>>
    /\ UNCHANGED notConn

\* a task spawned at lines 44-47 runs: it locks screen_capture and calls
\* start_capture, which sets is_capturing unless it is set (its Err is dropped)
SpawnedCapture ==
    /\ spawned["screen_capture"] > 0
    /\ ~LockedByStop("screen_capture")
    /\ is_capturing' = TRUE
    /\ spawned' = [spawned EXCEPT !["screen_capture"] = @ - 1]
    /\ UNCHANGED <<input_active, files_running, resolution,
                   host_is_running, hpc>>
    /\ UNCHANGED <<clientVars, netVars>>
    /\ UNCHANGED notConn

\* a task spawned at lines 51-54 runs: InputHandler::start
SpawnedInput ==
    /\ spawned["input_handler"] > 0
    /\ ~LockedByStop("input_handler")
    /\ input_active' = TRUE
    /\ spawned' = [spawned EXCEPT !["input_handler"] = @ - 1]
    /\ UNCHANGED <<files_running, resolution, host_is_running,
                   is_capturing, hpc>>
    /\ UNCHANGED <<clientVars, netVars>>
    /\ UNCHANGED notConn

\* a task spawned at lines 58-61 runs: FileServer::start
SpawnedFiles ==
    /\ spawned["file_server"] > 0
    /\ files_running' = TRUE
    /\ spawned' = [spawned EXCEPT !["file_server"] = @ - 1]
    /\ UNCHANGED <<input_active, resolution, host_is_running,
                   is_capturing, hpc>>
    /\ UNCHANGED <<clientVars, netVars>>
    /\ UNCHANGED notConn

\* FreeViewerHost::stop, lines 69-74: NotRunning, or is_running is cleared
HostStopBegin ==
    /\ hpc = "idle"
    /\ IF ~host_is_running
          THEN UNCHANGED <<host_is_running, hpc>>
          ELSE host_is_running' = FALSE /\ hpc' = "stop_capture"
    /\ UNCHANGED <<input_active, files_running, resolution,
                   is_capturing, spawned>>
    /\ UNCHANGED <<clientVars, netVars>>
    /\ UNCHANGED notConn

\* lines 77-78: screen_capture is locked, stop_capture (its Err is dropped)
HostStopCapture ==
    /\ hpc = "stop_capture"
    /\ is_capturing' = FALSE
    /\ hpc' = "stop_input"
    /\ UNCHANGED <<input_active, files_running, resolution,
                   host_is_running, spawned>>
    /\ UNCHANGED <<clientVars, netVars>>
    /\ UNCHANGED notConn

\* lines 80-81: input_handler is locked, InputHandler::stop
HostStopInput ==
    /\ hpc = "stop_input"
    /\ input_active' = FALSE
    /\ hpc' = "stop_files"
    /\ UNCHANGED <<files_running, resolution, host_is_running,
                   is_capturing, spawned>>
    /\ UNCHANGED <<clientVars, netVars>>
    /\ UNCHANGED notConn

\* lines 83-87: file_server is locked, FileServer::stop, Ok: every guard
\* is dropped
HostStopFiles ==
    /\ hpc = "stop_files"
    /\ files_running' = FALSE
    /\ hpc' = "idle"
    /\ UNCHANGED <<input_active, resolution, host_is_running,
                   is_capturing, spawned>>
    /\ UNCHANGED <<clientVars, netVars>>
    /\ UNCHANGED notConn

HostNext ==
    \/ HostStart
    \/ SpawnedCapture
    \/ SpawnedInput
    \/ SpawnedFiles
    \/ HostStopBegin
    \/ HostStopCapture
    \/ HostStopInput
    \/ HostStopFiles
    \/ HandleMessage

\* FreeViewerClient::new, NetworkManager::new, FreeViewerHost::new
ConnInit ==
    /\ state = Disconnected
    /\ current_session = None
    /\ cmLock = NoTask
    /\ cpc = [c \in Callers |-> "idle"]
    /\ cloc = [c \in Callers |-> NoArgs]
    /\ established = FALSE
    /\ teardowns = 0
    /\ net_is_active = FALSE
    /\ net_connection = None
    /\ sent = None
    /\ input_active = FALSE
    /\ files_running = FALSE
    /\ resolution = DefaultResolution
    /\ host_is_running = FALSE
    /\ is_capturing = FALSE
    /\ spawned = [k \in Components |-> 0]
    /\ hpc = "idle"

ConnNext ==
    \/ \E c \in Callers : ConnectBegin(c)
    \/ \E c \in Callers : ConnectFinish(c)
    \/ \E c \in Callers : Disconnect(c)
    \/ \E c \in Callers : SendMessage(c)
    \/ \E c \in Callers : ReceiveMessage(c)
    \/ NetStartServer
    \/ NetConnect
    \/ NetSendMessage
    \/ NetStop
    \/ HandleMessage

---------------------------------------------------------------------------
(* CertificateManager: the two files of the certificate directory.         *)
(* generate_self_signed awaits after each write, so other calls may run    *)
(* between its two writes.                                                 *)

\* what generate_self_signed writes
PlaceholderCert == "# Placeholder certificate\n"
PlaceholderKey == "# Placeholder key\n"

\* what the files may hold when the manager is created: nothing, the
\* placeholder, or a certificate and a key issued elsewhere
CertFiles == {None, Some(PlaceholderCert), Some("certificate A"),
              Some("certificate B")}
KeyFiles == {None, Some(PlaceholderKey), Some("key A"), Some("key B")}

\* tokio::fs::read of a file, lines 46-48 and 53-55
LoadFile(file) ==
    IF file = None THEN Err(<<"LoadingFailed">>) ELSE Ok(file[1])

\* CertificateManager::certificate_exists
CertificateExists(cf, kf) == cf # None /\ kf # None

\* generate_self_signed, line 37: the certificate is written, or the write
\* fails and `?` returns the error
GenerateWriteCert ==
    /\ cert_pc = "idle"
    /\ \E written \in BOOLEAN :
          IF written
             THEN /\ cert_file' = Some(PlaceholderCert)
                  /\ cert_pc' = "write_key"
                  /\ UNCHANGED cert_last
             ELSE /\ cert_last' = Did("generate_self_signed", <<>>,
                                      Err(<<"IoError">>))
                  /\ UNCHANGED <<cert_file, cert_pc>>
    /\ UNCHANGED key_file
    /\ UNCHANGED notCert

\* generate_self_signed, lines 38-41: the key is written and Ok returned,
\* or the write fails
GenerateWriteKey ==
    /\ cert_pc = "write_key"
    /\ \E written \in BOOLEAN :
          IF written
             THEN /\ key_file' = Some(PlaceholderKey)
                  /\ cert_last' = Did("generate_self_signed", <<>>, Ok(<<>>))
             ELSE /\ cert_last' = Did("generate_self_signed", <<>>,
                                      Err(<<"IoError">>))
                  /\ UNCHANGED key_file
    /\ cert_pc' = "idle"
    /\ UNCHANGED cert_file
    /\ UNCHANGED notCert

\* CertificateManager::load_certificate
LoadCertificate ==
    /\ cert_last' = Did("load_certificate", <<>>, LoadFile(cert_file))
    /\ UNCHANGED <<cert_file, key_file, cert_pc>>
    /\ UNCHANGED notCert

\* CertificateManager::load_private_key
LoadPrivateKey ==
    /\ cert_last' = Did("load_private_key", <<>>, LoadFile(key_file))
    /\ UNCHANGED <<cert_file, key_file, cert_pc>>
    /\ UNCHANGED notCert

\* a call of CertificateManager::certificate_exists
CertificateExistsCall ==
    /\ cert_last' = Did("certificate_exists", <<>>,
                        CertificateExists(cert_file, key_file))
    /\ UNCHANGED <<cert_file, key_file, cert_pc>>
    /\ UNCHANGED notCert

\* CertificateManager::validate_certificate
ValidateCertificate ==
    /\ cert_last' = Did("validate_certificate", <<>>,
                        Ok(CertificateExists(cert_file, key_file)))
    /\ UNCHANGED <<cert_file, key_file, cert_pc>>
    /\ UNCHANGED notCert

\* CertificateManager::new over an empty directory
CertInit ==
    /\ cert_file = None
    /\ key_file = None
    /\ cert_pc = "idle"
    /\ cert_last = Did("new", <<>>, Ok(<<>>))

CertNext ==
    \/ GenerateWriteCert
    \/ GenerateWriteKey
    \/ LoadCertificate
    \/ LoadPrivateKey
    \/ CertificateExistsCall
    \/ ValidateCertificate

---------------------------------------------------------------------------
(* AuthManager::new(), lines 33-39 *)

AuthInit ==
    /\ users = EmptyMap
    /\ sessions = EmptyMap
    /\ now = 0
    /\ pc = [p \in Tasks |-> "idle"]
    /\ loc = [p \in Tasks |-> Idle]
    /\ usersLock = NoTask
    /\ uuidCount = 0
    /\ calls = 0
    /\ registered = {}
    /\ grants = {}

Init == AuthInit /\ CipherInit /\ ConnInit /\ CertInit

AuthNext ==
    \/ \E p \in Tasks : CreateUserCall(p)
    \/ \E p \in Tasks : CreateUserInsert(p)
    \/ \E p \in Tasks : AuthenticateCheck(p)
    \/ \E p \in Tasks : AuthenticateInsert(p)
    \/ \E p \in Tasks : ValidateSession(p)
    \/ \E p \in Tasks : RevokeSession(p)
    \/ \E p \in Tasks : CleanupExpiredSessions(p)
    \/ \E p \in Tasks : GenerateCall(p)
    \/ \E p \in Tasks : GenerateInsert(p)
    \/ Tick

Spec == Init /\ [][AuthNext]_vars

---------------------------------------------------------------------------
(* AuthManager over a credential store that already holds a user.  No      *)
(* operation of AuthManager clears is_active or stores a hash that does    *)
(* not parse; the type User admits both, and authenticate has a branch for *)
(* each (lines 71-77).  SpecStore starts from every such store.            *)

StoredUser(active, phc) ==
    [id |-> "u1",
     password_hash |-> [HashPassword("pw1", "s1") EXCEPT !.phc = phc],
     created_at |-> 0, last_login |-> NoTime, is_active |-> active]

StoreInit ==
    /\ \E active \in BOOLEAN, phc \in BOOLEAN :
          users = Insert(EmptyMap, "u1", StoredUser(active, phc))
    /\ sessions = EmptyMap
    /\ now = 0
    /\ pc = [p \in Tasks |-> "idle"]
    /\ loc = [p \in Tasks |-> Idle]
    /\ usersLock = NoTask
    /\ uuidCount = 0
    /\ calls = 0
    /\ registered = {<<"u1", "pw1">>}
    /\ grants = {}
    /\ CipherInit
    /\ ConnInit
    /\ CertInit

SpecStore == StoreInit /\ [][AuthNext]_vars

SpecCipher == Init /\ [][CipherNext]_vars

SpecConn == Init /\ [][ConnNext]_vars

\* the sleep in connect ends: the timer of the runtime fires
SpecConnLive == SpecConn /\ WF_vars(\E c \in Callers : ConnectFinish(c))

SpecHost == Init /\ [][HostNext]_vars

\* CertificateManager::new over a directory that may hold files already
CertDirInit ==
    /\ AuthInit
    /\ CipherInit
    /\ ConnInit
    /\ cert_file \in CertFiles
    /\ key_file \in KeyFiles
    /\ cert_pc = "idle"
    /\ cert_last = Did("new", <<>>, Ok(<<>>))

SpecCert == CertDirInit /\ [][CertNext]_vars

---------------------------------------------------------------------------
(* Claims about AuthManager.  A critical section reads the store and the   *)
(* clock as they are in the state it runs in, so what an operation would   *)
(* return in a state is its decision operator applied to that state.       *)

\* what validate_session(token) returns on success: the session's user_id
ValidatedUser(token) == sessions[token].user_id

\* the specification's notion of a valid session (spec, section 3)
ValidBySpec(session, t) == session.is_active /\ t < session.expires_at

\* C1: for every pair signed up by a successful create_user, authenticate
\* with that pair succeeds, and the token it returned validates, with that
\* identity as user_id, at every instant before 3600 seconds have passed
\* since it was issued, unless it was revoked.
C1_LoginThenValid ==
    /\ \A pair \in registered : AuthCheck(users, pair[1], pair[2]) = "Ok"
    /\ \A g \in grants :
          (g.tok \in Uuids /\ now < g.at + SessionTtl)
             => /\ ValidateCheck(sessions, g.tok, now) = "Ok"
                /\ ValidatedUser(g.tok) = g.user

\* a token returned by a login with a signed-up pair validates at a later
\* instant inside its lifetime
C1_Witness ==
    \E g \in grants :
       /\ g.tok \in Uuids
       /\ \E pw \in Passwords : <<g.user, pw>> \in registered
       /\ g.at = 0 /\ now = AccessCodeTtl
       /\ ValidateCheck(sessions, g.tok, now) = "Ok"

\* C2: authenticate fails with InvalidCredentials both when the identity is
\* unknown and when it is known but the password is wrong, and a login that
\* starts building a session is one with a signed-up pair.
C2_SameErrorInv ==
    \A id \in Ids, pw \in Passwords :
       <<id, pw>> \notin registered
          => AuthCheck(users, id, pw) = "InvalidCredentials"

C2_NoSessionStep ==
    \A p \in Tasks :
       (pc[p] = "idle" /\ pc'[p] = "au_swait")
          => <<loc'[p].id, loc'[p].password>> \in registered

C2_SameError == []C2_SameErrorInv /\ [][C2_NoSessionStep]_vars

\* one identity is known and is tried with a wrong password while another
\* identity is unknown: both logins fail the same way
C2_Witness ==
    \E id \in DOMAIN users, other \in Ids \ DOMAIN users, pw \in Passwords :
       /\ <<id, pw>> \notin registered
       /\ AuthCheck(users, id, pw) = "InvalidCredentials"
       /\ AuthCheck(users, other, pw) = "InvalidCredentials"

C4_ValidIffActiveUnexpired ==
    \A tok \in Tokens :
       (ValidateCheck(sessions, tok, now) = "Ok")
          <=> (tok \in DOMAIN sessions /\ ValidBySpec(sessions[tok], now))

\* C5: an access code issued for a user validates with that user_id while
\* no time has passed, and is rejected as SessionExpired once more than 300
\* seconds have passed, unless it was revoked or swept in between.
C5_AccessCodeLifetime ==
    \A g \in grants :
       (g.tok \in Codes /\ ~g.swept)
          => /\ now = g.at
                  => /\ ValidateCheck(sessions, g.tok, now) = "Ok"
                     /\ ValidatedUser(g.tok) = g.user
             /\ now > g.at + AccessCodeTtl
                  => ValidateCheck(sessions, g.tok, now) = "SessionExpired"

\* C6: a sweep removes exactly the sessions that are inactive or have
\* expires_at <= now and leaves the others as they are, whatever other tasks
\* have in flight: in every state, what the sweep would leave is the
\* registry cut down to its active and unexpired sessions, and a step that
\* removes an entry is such a sweep and touches no task's pending session.
SweptBySpec(session, t) == ~session.is_active \/ session.expires_at <= t

C6_SweepInv ==
    Retain(sessions, now) =
       [k \in {x \in DOMAIN sessions : ~SweptBySpec(sessions[x], now)}
           |-> sessions[k]]

C6_SweepStep ==
    (DOMAIN sessions \ DOMAIN sessions' # {})
       => /\ DOMAIN sessions' =
                {x \in DOMAIN sessions : ~SweptBySpec(sessions[x], now)}
          /\ \A k \in DOMAIN sessions' : sessions'[k] = sessions[k]
          /\ pc' = pc /\ loc' = loc

C6_SweepExact == []C6_SweepInv /\ [][C6_SweepStep]_vars

\* a sweep has removed an entry and kept another while a task had a session
\* built and not yet inserted
C6_Witness ==
    /\ \E g \in grants : g.swept /\ g.tok \notin DOMAIN sessions
    /\ sessions # EmptyMap
    /\ \E p \in Tasks : pc[p] \in {"au_swait", "ga_wait"}

---------------------------------------------------------------------------
(* Claims about SecurityManager and ProtocolEncryption.  Every cipher      *)
(* step records the operation in cres, so cres describes an operation run  *)
(* on the cipher, the flag and the wire of the current state.              *)

\* C7: for every plaintext P and every key, decrypt(encrypt(P)) is Ok(P):
\* for whatever encrypt may return next, and for the message in transit
\* when decrypt is given it under the key that sealed it.
C7_RoundTrip ==
    /\ \A key \in Keys, P \in Plaintexts :
          Decrypt(key, Encrypt(key, Nonce(rng), P).val) = Ok(P)
    /\ (cres.op = "decrypt" /\ wire.sealed /\ ~wire.touched
           /\ cipher = wire.key)
          => cres.res = Ok(wire.plain)

\* decrypt has returned a non-empty plaintext that encrypt was given
C7_Witness ==
    /\ cres.op = "decrypt" /\ wire.sealed /\ ~wire.touched
    /\ cipher = wire.key
    /\ Len(wire.plain) = MaxLen
    /\ cres.res.ok /\ cres.res.val = wire.plain

\* C8: a message of encrypt in which one byte was changed, in the nonce, the
\* ciphertext or the tag, is refused by decrypt, and decrypt never returns
\* a plaintext for it.
C8_TamperDetected ==
    /\ (wire.sealed /\ wire.touched)
          => \A key \in Keys : ~Decrypt(key, wire.data).ok
    /\ (cres.op = "decrypt" /\ wire.sealed /\ wire.touched)
          => /\ ~cres.res.ok
             /\ cipher # NoCipher => cres.res.err[1] = "DecryptionFailed"

\* where the message in transit differs from what encrypt returned
TouchedAt ==
    {i \in 1..Len(wire.data) :
        wire.data[i] #
           Encrypt(wire.key, usedNonces[Len(usedNonces)].nonce,
                   wire.plain).val[i]}

\* decrypt, under the sealing key, has refused a message whose ciphertext
\* part was changed in one byte
C8_Witness ==
    /\ cres.op = "decrypt" /\ wire.sealed /\ wire.touched
    /\ cipher = wire.key
    /\ \E i \in TouchedAt : i > NonceLen /\ i <= NonceLen + Len(wire.plain)
    /\ cres.res = Err(<<"DecryptionFailed", "aead::Error">>)

\* C9: no (key, nonce) pair is used twice, every encrypt draws a nonce and
\* sends the nonce it drew as the prefix of its output, so no two outputs
\* under one key are the same.
C9_NonceFresh ==
    /\ \A i, j \in 1..Len(usedNonces) :
          i # j => usedNonces[i] # usedNonces[j]
    /\ Len(usedNonces) = rng
    /\ (cres.op \in {"encrypt", "encrypt_data"} /\ cres.res.ok /\ wire.sealed)
          => /\ usedNonces[rng] = [key |-> cipher,
                                   nonce |-> SubSeq(cres.res.val, 1, NonceLen)]
             /\ cres.res.val = wire.data

\* two encryptions were made under one key
C9_Witness ==
    /\ Len(usedNonces) >= 2
    /\ usedNonces[1].key = usedNonces[2].key
    /\ cres.op = "encrypt" /\ cres.res.ok

\* C10: while init_encryption has not been called, encrypt and decrypt fail
\* with NotInitialized for every input, encrypt_data and decrypt_data fail
\* too while encryption is enabled, and an operation of ProtocolEncryption
\* returns its input unchanged only while encryption is disabled.
C10_NoSilentPassthrough ==
    /\ cipher = NoCipher
          => /\ \A data \in Plaintexts \cup {wire.data} :
                   /\ Encrypt(cipher, Nonce(rng), data)
                         = Err(<<"NotInitialized">>)
                   /\ Decrypt(cipher, data) = Err(<<"NotInitialized">>)
             /\ (cres.op \in {"encrypt", "decrypt"})
                   => cres.res = Err(<<"NotInitialized">>)
             /\ (cres.op \in {"encrypt_data", "decrypt_data"} /\ is_enabled)
                   => /\ ~cres.res.ok
                      /\ cres.res.err[2] = "NotInitialized"
    /\ (cres.op \in {"encrypt_data", "decrypt_data"}
           /\ cres.res = Ok(cres.input))
          => ~is_enabled

\* with no key and encryption enabled, encrypt_data was refused
C10_Witness ==
    /\ cipher = NoCipher /\ is_enabled
    /\ cres.op = "encrypt_data" /\ cres.input # <<>>
    /\ cres.res = Err(<<"EncryptFailed", "NotInitialized">>)

---------------------------------------------------------------------------
(* Claims about the connection state machine, the transport and the host   *)

\* C11: the connection state changes only along the transition table:
\* into Connecting only from Disconnected, into Authenticating only from
\* Connecting, and into Connected only from Authenticating.
C11_TransitionTable ==
    [][(state' # state)
          => /\ state' = Connecting => state = Disconnected
             /\ state' = Authenticating => state = Connecting
             /\ state' = Connected => state = Authenticating]_vars

\* C12: from Error(reason) the connection state goes nowhere but to
\* Disconnected.
C12_ErrorThenDisconnected ==
    [][IsError(state) => (state' = state \/ state' = Disconnected)]_vars

\* C13: a payload frame is sent or received only while the state is
\* Connected, it is refused with NotConnected in every other state, and the
\* host acts on a frame only while the state is Connected.
C13_PayloadOnlyConnected ==
    /\ [](/\ SendCheck(state) = "Ok" <=> state = Connected
          /\ ReceiveCheck(state) = "Ok" <=> state = Connected)
    /\ [][resolution' # resolution => state = Connected]_vars

\* C14: a connection attempt that is under way (Connecting, Authenticating)
\* does not last for ever and does not come to rest in Error: it leads to
\* Connected or, when it fails, through Error to Disconnected.
C14_AttemptEnds ==
    (state \in {Connecting, Authenticating})
       ~> (state \in {Connected, Disconnected})

\* C15: with encryption enabled, no frame that send_message put on the
\* transport of an established connection, a Heartbeat or a Disconnect frame
\* included, decodes as a Message as it is.
C15_FramesEncrypted ==
    (UseEncryption /\ net_connection # None /\ sent # None)
       => ~DecodesAsMessage(sent[1])

\* C16: for one established connection the teardown of disconnect runs at
\* most once, however many disconnect requests are made.
C16_TeardownOnce == established => teardowns <= 1

---------------------------------------------------------------------------
(* Further claims about AuthManager *)

\* C17: create_user fails with UserExists exactly when the identity, as
\* given, is a key of the credential store, and a create_user that fails so
\* leaves the stored record and the session registry as they were.
C17_ExistsInv ==
    \A id \in Ids :
       (CreateUserCheck(users, id) = "UserExists") <=> (id \in DOMAIN users)

C17_ExistsStep ==
    \A p \in Tasks :
       (pc[p] = "cu_wait" /\ pc'[p] = "idle" /\ loc[p].id \in DOMAIN users)
          => /\ users' = users
             /\ sessions' = sessions
             /\ registered' = registered

C17_UserExists == []C17_ExistsInv /\ [][C17_ExistsStep]_vars

\* a create_user is about to return for an identity that is taken, with a
\* record that differs from the stored one, while the registry holds a session
C17_Witness ==
    \E p \in Tasks :
       /\ pc[p] = "cu_wait"
       /\ loc[p].id \in DOMAIN users
       /\ users[loc[p].id] # loc[p].user
       /\ sessions # EmptyMap

\* C18: an authenticate that succeeds sets the user's last_login and nothing
\* else in the credential store, then adds one session under a token the
\* registry did not hold, and leaves every other session as it was and as
\* valid as it was; last_login changes in no other way, and an authenticate
\* goes on to issue a session only if its checks returned Ok.
C18_LoginStep ==
    \A p \in Tasks :
       /\ (pc[p] = "idle" /\ pc'[p] = "au_swait")
             => /\ AuthCheck(users, loc'[p].id, loc'[p].password) = "Ok"
                /\ users' = [users EXCEPT ![loc'[p].id].last_login = now]
                /\ sessions' = sessions
       /\ (pc[p] = "au_swait" /\ pc'[p] = "idle")
             => /\ loc[p].session.token \notin DOMAIN sessions
                /\ DOMAIN sessions' = DOMAIN sessions \cup {loc[p].session.token}
                /\ sessions'[loc[p].session.token].user_id = loc[p].id
                /\ \A k \in DOMAIN sessions :
                      /\ sessions'[k] = sessions[k]
                      /\ ValidateCheck(sessions', k, now')
                            = ValidateCheck(sessions, k, now)
                /\ users' = users

C18_LastLoginStep ==
    \A id \in DOMAIN users :
       (id \in DOMAIN users' /\ users'[id].last_login # users[id].last_login)
          => \E p \in Tasks :
                pc[p] = "idle" /\ pc'[p] = "au_swait" /\ loc'[p].id = id

C18_LoginFrame == [][C18_LoginStep /\ C18_LastLoginStep]_vars

\* one user holds two sessions from two logins, both valid
C18_Witness ==
    \E a, b \in Uuids \cap DOMAIN sessions :
       /\ a # b
       /\ sessions[a].user_id = sessions[b].user_id
       /\ users[sessions[a].user_id].last_login = sessions[b].created_at
       /\ ValidateCheck(sessions, a, now) = "Ok"
       /\ ValidateCheck(sessions, b, now) = "Ok"

\* C19: revoke_session clears is_active of the session of the token and
\* changes nothing else; a revoked session makes validate_session return
\* SessionInactive, and it stays as it is until a sweep removes it; a token
\* with no entry gives InvalidSession.
C19_RevokedInv ==
    \A k \in Tokens :
       /\ (k \in DOMAIN sessions /\ ~sessions[k].is_active)
             => ValidateCheck(sessions, k, now) = "SessionInactive"
       /\ k \notin DOMAIN sessions
             => ValidateCheck(sessions, k, now) = "InvalidSession"

C19_RevokeStep ==
    \A k \in DOMAIN sessions :
       /\ (sessions[k].is_active /\ k \in DOMAIN sessions'
              /\ ~sessions'[k].is_active)
             => /\ sessions' = [sessions EXCEPT ![k].is_active = FALSE]
                /\ users' = users
       /\ ~sessions[k].is_active
             => \/ k \in DOMAIN sessions' /\ sessions'[k] = sessions[k]
                \/ k \notin DOMAIN sessions' /\ sessions' = Retain(sessions, now)

C19_RevokeThenSwept == []C19_RevokedInv /\ [][C19_RevokeStep]_vars

\* C20: of the create_user calls for one identity that run at the same time
\* one returns Ok and the others UserExists: a call inserts its record
\* exactly when the identity is absent as it takes the lock, a stored
\* record is never replaced, and one pair at most is signed up per identity.
C20_OneWinnerInv ==
    \A pair \in registered :
       /\ pair[1] \in DOMAIN users
       /\ VerifyPassword(pair[2], users[pair[1]].password_hash)
       /\ \A other \in registered : other[1] = pair[1] => other = pair

C20_InsertStep ==
    /\ \A p \in Tasks :
          (pc[p] = "cu_wait" /\ pc'[p] = "idle")
             => IF loc[p].id \in DOMAIN users
                   THEN users' = users
                   ELSE /\ users' = Insert(users, loc[p].id, loc[p].user)
                        /\ registered' =
                              registered \cup {<<loc[p].id, loc[p].password>>}
    /\ \A id \in DOMAIN users :
          /\ id \in DOMAIN users'
          /\ users'[id] = [users[id] EXCEPT
                              !.last_login = users'[id].last_login]

C20_InsertIfAbsent == []C20_OneWinnerInv /\ [][C20_InsertStep]_vars

\* two calls for one identity with different passwords were under way; one
\* has stored its record and the other is about to take the lock
C20_Witness ==
    \E p \in Tasks :
       /\ pc[p] = "cu_wait"
       /\ loc[p].id \in DOMAIN users
       /\ <<loc[p].id, loc[p].password>> \notin registered
       /\ users[loc[p].id].created_at = loc[p].user.created_at
       /\ usersLock = NoTask

---------------------------------------------------------------------------
(* Claims about locking, sweeps and token issue in AuthManager *)

\* the step that lets task p go on is granted
Runnable(p) ==
    ENABLED (CreateUserInsert(p) \/ AuthenticateInsert(p) \/ GenerateInsert(p))

C22_SweepIdempotent ==
    Retain(Retain(sessions, now), now) = Retain(sessions, now)

\* a sweep would remove one entry of the registry and keep another that
\* expires later
C22_Witness ==
    \E a, b \in DOMAIN sessions :
       /\ ~Retained(sessions[a], now)
       /\ Retained(sessions[b], now)
       /\ sessions[a].expires_at < sessions[b].expires_at
       /\ \E g \in grants : g.swept

\* C25: validate_session and cleanup_expired_sessions agree at every
\* instant: a sweep keeps exactly the sessions validate_session accepts.
C25_SweepAgreesWithValidate ==
    \A k \in DOMAIN sessions :
       Retained(sessions[k], now) <=> ValidateCheck(sessions, k, now) = "Ok"

\* C26: an issue adds its entry under a token the registry does not hold,
\* and leaves every entry of the registry as it was.
C26_IssueStep ==
    \A p \in Tasks :
       (pc[p] \in {"au_swait", "ga_wait"} /\ pc'[p] = "idle")
          => /\ loc[p].session.token \notin DOMAIN sessions
             /\ \A k \in DOMAIN sessions :
                   k \in DOMAIN sessions' /\ sessions'[k] = sessions[k]

C26_IssueDisturbsNothing == [][C26_IssueStep]_vars

\* C27: a token that validate_session rejects as SessionInactive or
\* SessionExpired is not accepted again: no operation takes the registry
\* from a state where the token is rejected so to one where it is accepted.
C27_RejectionPermanent ==
    [][\A k \in Tokens :
          ValidateCheck(sessions, k, now) \in {"SessionInactive", "SessionExpired"}
             => ValidateCheck(sessions', k, now') # "Ok"]_vars

\* C28: every session of the registry, token or access code, belongs to a
\* user that is in the credential store and active.
C28_SessionsOfUsers ==
    \A k \in DOMAIN sessions :
       /\ sessions[k].user_id \in DOMAIN users
       /\ users[sessions[k].user_id].is_active

---------------------------------------------------------------------------
(* Further claims about SecurityManager *)

\* the first n bytes of what is in transit
Prefix(n) == SubSeq(wire.data, 1, n)

\* C23: decrypt refuses every input shorter than the 12-byte nonce with
\* InvalidData, before any decryption is tried, and whatever the input its
\* failure is an error value: NotInitialized, InvalidData or
\* DecryptionFailed, never a panic.
C23_ShortInputRejected ==
    /\ \A c \in Keys \cup {NoCipher} :
          \A n \in 0..Len(wire.data) :
             LET r == Decrypt(c, Prefix(n)) IN
             /\ (n < NonceLen /\ c # NoCipher) => r = Err(<<"InvalidData">>)
             /\ n < NonceLen => ~r.ok
             /\ ~r.ok => r.err[1] \in {"NotInitialized", "InvalidData",
                                       "DecryptionFailed"}
    /\ (cres.op = "decrypt" /\ Len(cres.input) < NonceLen)
          => /\ ~cres.res.ok
             /\ cipher # NoCipher => cres.res = Err(<<"InvalidData">>)

\* decrypt, with a key, has refused a message cut one byte short of a nonce
C23_Witness ==
    /\ cres.op = "decrypt" /\ cipher # NoCipher
    /\ Len(cres.input) = NonceLen - 1
    /\ wire.touched
    /\ cres.res = Err(<<"InvalidData">>)

---------------------------------------------------------------------------
(* Claims about CertificateManager, FreeViewerClient and FreeViewerHost *)

\* C24: ensuring the identity credential is idempotent: a call made while
\* a certificate and key pair exists leaves the bytes of both files as they
\* are, and after a call that succeeded certificate_exists is true and the
\* two loads return the stored bytes.
C24_ReuseStep ==
    (cert_pc = "idle" /\ cert_pc' = "write_key"
        /\ CertificateExists(cert_file, key_file))
       => cert_file' = cert_file /\ key_file' = key_file

C24_EnsuredInv ==
    (cert_last.op = "generate_self_signed" /\ cert_last.res.ok)
       => /\ CertificateExists(cert_file, key_file)
          /\ LoadFile(cert_file) = Ok(cert_file[1])
          /\ LoadFile(key_file) = Ok(key_file[1])

C24_EnsureIdempotent == []C24_EnsuredInv /\ [][C24_ReuseStep]_vars

\* C29: when no connect is under way, current_session is present exactly
\* when the connection state is Connected.
C29_SessionIffConnected ==
    (\A c \in Callers : cpc[c] = "idle")
       => (current_session # None <=> state = Connected)

\* C30: when stop or start has returned and every task that start spawned
\* has run, screen capture, input handler and file server are all stopped
\* if is_running is false and all started if it is true.
C30_ComponentsFollowHost ==
    (hpc = "idle" /\ \A k \in Components : spawned[k] = 0)
       => /\ is_capturing = host_is_running
          /\ input_active = host_is_running
          /\ files_running = host_is_running

====
